---- MODULE Spec2Model ----
(***************************************************************************)
(* Model of bot.py (ArsesTennis telegram bot, v3.0.4): the SQLite store    *)
(* (group_schedules, button_cooldowns, stats), the Telegram transport as   *)
(* seen through edit_message_text / send_message, and the coroutines that  *)
(* touch the store: button_handler, setup_group, broadcast_command and the *)
(* repeating job auto_update_schedules.                                    *)
(*                                                                         *)
(* Coroutines run on one asyncio loop: a step of the model is the code     *)
(* between two awaits, together with the transport's answer to the await   *)
(* that starts it.  Handlers are allowed to interleave with each other at  *)
(* their awaits (a superset of what a sequential dispatcher produces) and  *)
(* with the job.  The clock is read where the code reads it; each read     *)
(* returns a time not earlier than the previous read.                      *)
(***************************************************************************)
EXTENDS Integers, Sequences, FiniteSets, TLC

\* ---------------------------------------------------------------- bounds
StartTime == 50          \* time.time() when the process starts
Horizon == 5             \* seconds after the start that the model looks at
MaxMsgId == 2            \* schedule messages a chat can receive
MaxUpdates == 3          \* updates (clicks, commands) dispatched to handlers
MaxAutoUpdates == 2      \* cap on stats['auto_updates_processed']

\* ------------------------------------------------------- program constants
BUTTON_COOLDOWN_SECONDS == 5
SecondsPerMinute == 60
MaxTime == StartTime + Horizon

Chats == {1, 2}
HandlerIds == {1, 2}
MsgIds == 1..MaxMsgId
Users == {"admin", "other"}
ADMIN_IDS == {"admin"}
MemberStatus == {"administrator", "creator", "member", "error"}
Feed == {"None", "courts"}
NoMsg == <<>>
NoText == <<>>

\* Answers of the transport that are not decided by the message itself.
Faults == {"none", "forbidden", "bad_request", "transient"}
\* Answers of edit_message_text that raise telegram.error.BadRequest.
BadRequestResults == {"not_found", "not_modified", "bad_request"}

VARIABLES
    group_schedules,   \* table group_schedules: chat_id -> message_id, 0 = no row
    button_cooldowns,  \* table button_cooldowns: chat_id -> last_used_timestamp, 0 = no row
    stats,             \* table stats: key -> value
    messages,          \* transport: chat -> message id -> text of the schedule message, NoMsg = no such message
    nextMsgId,         \* transport: id the next schedule message of the chat gets
    now,               \* the latest value time.time() has returned
    handler,           \* update handlers: position and locals of each coroutine
    sweep,             \* the job auto_update_schedules: position, locals and the tallies of its run
    report,            \* the counts of the last 'sent to X groups, failed in Y' reply of /broadcast
    updates,           \* number of updates dispatched so far
    passLog,           \* history: per chat, the times at which a click passed the cooldown gate
    dropped,           \* history: per chat, a refresh saw Forbidden and no setup_group followed
    fresh,             \* history: per chat, the last thing that happened to it was a successful edit
    last               \* history: the step just taken: whose it was and what the transport answered

vars == <<group_schedules, button_cooldowns, stats, messages, nextMsgId, now,
          handler, sweep, report, updates, passLog, dropped, fresh, last>>

\* ------------------------------------------------------------------ store
db_get_schedule_message(chat_id) == group_schedules[chat_id]

db_set_schedule_message_NoStore(gs, chat_id, message_id) == gs

db_set_schedule_message_Swapped(gs, chat_id, message_id) ==
    IF message_id \in Chats THEN [gs EXCEPT ![message_id] = chat_id] ELSE gs

db_set_schedule_message(gs, chat_id, message_id) ==
    [gs EXCEPT ![chat_id] = message_id]

db_remove_schedule_message(gs, chat_id) == [gs EXCEPT ![chat_id] = 0]

db_get_cooldown(chat_id) == button_cooldowns[chat_id]

db_set_cooldown_AllChats(chat_id, timestamp) ==
    [c \in Chats |-> timestamp]

db_set_cooldown(chat_id, timestamp) ==
    [button_cooldowns EXCEPT ![chat_id] = timestamp]

db_increment_stat_Twice(st, key) == [st EXCEPT ![key] = @ + 2]

db_increment_stat(st, key) == [st EXCEPT ![key] = @ + 1]

db_get_all_active_groups == {c \in Chats : group_schedules[c] # 0}

\* The rows of a SELECT without ORDER BY, in any order.
Orders(S) ==
    {s \in [1..Cardinality(S) -> S] : \A i, j \in 1..Cardinality(S) : i # j => s[i] # s[j]}

\* ------------------------------------------------------------ pure helpers
admin_only(user_id) == user_id \in ADMIN_IDS

\* format_schedule_message: the header carries the HH:MM of the call, the
\* body is the "no slots" line when `not data`, the court list otherwise.
format_schedule_message(data, minute) ==
    <<IF data = "None" THEN "no_slots" ELSE "slots", minute>>

OnCooldown_Short(current_time, last_used) ==
    current_time - last_used < BUTTON_COOLDOWN_SECONDS - 1

\* line 257: current_time - db_get_cooldown(chat_id) < BUTTON_COOLDOWN_SECONDS
OnCooldown(current_time, last_used) ==
    current_time - last_used < BUTTON_COOLDOWN_SECONDS

\* lines 251-260: what the membership check and the cooldown gate decide.
GateOutcome(status, current_time, last_used) ==
    IF status = "error" THEN "gate_failed"
    ELSE IF status \notin {"administrator", "creator"} THEN "gate_not_admin"
    ELSE IF OnCooldown(current_time, last_used) THEN "gate_rejected"
    ELSE "gate_passed"

\* A read of time.time(): not earlier than any earlier read.
Instants == {StartTime} \cup ((StartTime + BUTTON_COOLDOWN_SECONDS - 1)..MaxTime)
Times == {t \in Instants : t >= now}

\* A read of the HH:MM of the wall clock, and the earliest time it can be read at.
Minutes == (now \div SecondsPerMinute)..(MaxTime \div SecondsPerMinute)
AtMinute(k) == IF k * SecondsPerMinute > now THEN k * SecondsPerMinute ELSE now

\* -------------------------------------------------------------- transport
\* What edit_message_text answers: a fault raised by the platform, or the
\* answer the message itself decides.
EditResult(c, m, text, fault) ==
    IF fault # "none" THEN fault
    ELSE IF messages[c][m] = NoMsg THEN "not_found"
    ELSE IF messages[c][m] = text THEN "not_modified"
    ELSE "ok"

\* What send_message answers for a schedule message.
SendResult(c, fault) ==
    IF fault # "none" THEN fault
    ELSE IF nextMsgId[c] > MaxMsgId THEN "transient"
    ELSE "ok"

Posted(c, text) == [messages EXCEPT ![c][nextMsgId[c]] = text]

\* ---------------------------------------------------------------- history
Step(by, chat, edit, send) == [by |-> by, chat |-> chat, edit |-> edit, send |-> send]
NoStep == Step("none", 0, "none", "none")

\* ----------------------------------------------------------- initial state
IdleHandler ==
    [pc |-> "idle", chat_id |-> 0, message_id_to_edit |-> 0, new_text |-> NoText,
     edit_result |-> "none",
     active_groups |-> <<>>, i |-> 0, successful_sends |-> 0, failed_sends |-> 0]

IdleSweep ==
    [pc |-> "idle", active_groups |-> <<>>, i |-> 0, new_data |-> "None",
     message_id |-> 0, new_text |-> NoText,
     ran |-> FALSE, stat0 |-> 0, updated |-> 0, recreated |-> 0,
     handled |-> {}, finished |-> FALSE]

\* init_db on the database file: the tables exist, the counters are 0; a
\* chat either was never set up, or an earlier /setupgroup left its row and
\* its schedule message.
InitTracked(T) ==
    /\ group_schedules = [c \in Chats |-> IF c \in T THEN 1 ELSE 0]
    /\ button_cooldowns = [c \in Chats |-> 0]
    /\ stats = [k \in {"updates_clicked", "auto_updates_processed"} |-> 0]
    /\ messages = [c \in Chats |-> [m \in MsgIds |->
            IF m = 1 /\ group_schedules[c] = 1
            THEN format_schedule_message("courts", StartTime \div SecondsPerMinute) ELSE NoMsg]]
    /\ nextMsgId = [c \in Chats |-> group_schedules[c] + 1]
    /\ now = StartTime
    /\ handler = [h \in HandlerIds |-> IdleHandler]
    /\ sweep = IdleSweep
    /\ report = [n |-> 0, ok |-> 0, failed |-> 0]
    /\ updates = 0
    /\ passLog = [c \in Chats |-> <<>>]
    /\ dropped = [c \in Chats |-> FALSE]
    /\ fresh = [c \in Chats |-> FALSE]
    /\ last = NoStep

Init == \E T \in SUBSET Chats : InitTracked(T)

\* ------------------------------------------------------------ environment
\* Somebody deletes a schedule message in the chat.
DeleteMessage(c, m) ==
    /\ messages[c][m] # NoMsg
    /\ messages' = [messages EXCEPT ![c][m] = NoMsg]
    /\ fresh' = [fresh EXCEPT ![c] = FALSE]
    /\ last' = NoStep
    /\ UNCHANGED <<group_schedules, button_cooldowns, stats, nextMsgId, now,
                   handler, sweep, report, updates, passLog, dropped>>

\* ----------------------------------------------------------- button_handler
\* lines 244-251: the click arrives in a group chat with data
\* 'update_schedule_group'; the handler answers the query and asks for the
\* clicking user's membership.
ButtonClick(h, c) ==
    /\ handler[h].pc = "idle"
    /\ updates < MaxUpdates
    /\ updates' = updates + 1
    /\ handler' = [handler EXCEPT ![h] = [IdleHandler EXCEPT !.pc = "get_chat_member", !.chat_id = c]]
    /\ last' = NoStep
    /\ UNCHANGED <<group_schedules, button_cooldowns, stats, messages, nextMsgId, now,
                   sweep, report, passLog, dropped, fresh>>

\* lines 251-271: membership check, cooldown gate, counter, tracked id,
\* fetch and render, up to the await of edit_message_text.
ButtonGate(h, status, current_time, data) ==
    /\ handler[h].pc = "get_chat_member"
    /\ current_time \in Times
    /\ last' = Step(GateOutcome(status, current_time, db_get_cooldown(handler[h].chat_id)), handler[h].chat_id, "none", "none")
    /\ LET c == handler[h].chat_id
           cd == db_get_cooldown(c)
       IN
       IF GateOutcome(status, current_time, cd) \in {"gate_failed", "gate_not_admin"} THEN
            /\ handler' = [handler EXCEPT ![h] = IdleHandler]
            /\ UNCHANGED <<button_cooldowns, stats, passLog, fresh, now>>
       ELSE IF GateOutcome(status, current_time, cd) = "gate_rejected" THEN
            /\ handler' = [handler EXCEPT ![h] = IdleHandler]
            /\ now' = current_time
            /\ UNCHANGED <<button_cooldowns, stats, passLog, fresh>>
       ELSE
            /\ now' = current_time
            /\ button_cooldowns' = db_set_cooldown(c, current_time)
            /\ stats' = db_increment_stat(stats, "updates_clicked")
            /\ passLog' = [passLog EXCEPT ![c] = Append(@, current_time)]
            /\ IF db_get_schedule_message(c) = 0 THEN
                    /\ handler' = [handler EXCEPT ![h] = IdleHandler]
                    /\ fresh' = [fresh EXCEPT ![c] = FALSE]
               ELSE
                    /\ handler' = [handler EXCEPT ![h] =
                            [@ EXCEPT !.pc = "edit_message_text",
                                      !.message_id_to_edit = db_get_schedule_message(c),
                                      !.new_text = format_schedule_message(data, current_time \div SecondsPerMinute)]]
                    /\ UNCHANGED fresh
    /\ UNCHANGED <<group_schedules, messages, nextMsgId, sweep, report, updates, dropped>>

\* lines 272-277: the answer to edit_message_text.  Success ends the handler;
\* any BadRequest goes on to send a new message; every other exception
\* leaves the handler.
ButtonEdit(h, fault) ==
    /\ handler[h].pc = "edit_message_text"
    /\ LET c == handler[h].chat_id
           m == handler[h].message_id_to_edit
           text == handler[h].new_text
           r == EditResult(c, m, text, fault)
       IN
       /\ last' = Step("button", c, r, "none")
       /\ dropped' = [dropped EXCEPT ![c] = @ \/ r = "forbidden"]
       /\ fresh' = [fresh EXCEPT ![c] = (r = "ok")]
       /\ messages' = IF r = "ok" THEN [messages EXCEPT ![c][m] = text] ELSE messages
       /\ handler' = IF r \in BadRequestResults
                     THEN [handler EXCEPT ![h] = [@ EXCEPT !.pc = "send_message", !.edit_result = r]]
                     ELSE [handler EXCEPT ![h] = IdleHandler]
    /\ UNCHANGED <<group_schedules, button_cooldowns, stats, nextMsgId, now, sweep,
                   report, updates, passLog>>

\* lines 278-280: the answer to the send_message of the except branch.
ButtonRecreate(h, fault) ==
    /\ handler[h].pc = "send_message"
    /\ LET c == handler[h].chat_id
           r == SendResult(c, fault)
       IN
       /\ last' = Step("button", c, handler[h].edit_result, r)
       /\ IF r = "ok" THEN
               /\ messages' = Posted(c, handler[h].new_text)
               /\ nextMsgId' = [nextMsgId EXCEPT ![c] = @ + 1]
               /\ group_schedules' = db_set_schedule_message(group_schedules, c, nextMsgId[c])
          ELSE
               /\ UNCHANGED <<messages, nextMsgId, group_schedules>>
       /\ fresh' = [fresh EXCEPT ![c] = FALSE]
       /\ handler' = [handler EXCEPT ![h] = IdleHandler]
    /\ UNCHANGED <<button_cooldowns, stats, now, sweep, report, updates, passLog, dropped>>

\* -------------------------------------------------------------- setup_group
\* lines 110-119, 198-232: the admin gate, then the welcome message is sent.
SetupStart(h, c, user_id) ==
    /\ handler[h].pc = "idle"
    /\ updates < MaxUpdates
    /\ updates' = updates + 1
    /\ handler' = IF admin_only(user_id)
                  THEN [handler EXCEPT ![h] = [IdleHandler EXCEPT !.pc = "setup_welcome", !.chat_id = c]]
                  ELSE handler
    /\ last' = NoStep
    /\ UNCHANGED <<group_schedules, button_cooldowns, stats, messages, nextMsgId, now,
                   sweep, report, passLog, dropped, fresh>>

\* lines 221-238: the answer to the welcome send; then fetch, render and
\* await the send of the schedule message.
SetupWelcome(h, fault, data, t) ==
    /\ handler[h].pc = "setup_welcome"
    /\ t \in Minutes
    /\ last' = Step("setup_welcome", handler[h].chat_id, "none", IF fault = "none" THEN "ok" ELSE fault)
    /\ IF fault = "none" THEN
            /\ handler' = [handler EXCEPT ![h] =
                    [@ EXCEPT !.pc = "setup_send", !.new_text = format_schedule_message(data, t)]]
            /\ now' = AtMinute(t)
       ELSE
            /\ handler' = [handler EXCEPT ![h] = IdleHandler]
            /\ UNCHANGED now
    /\ UNCHANGED <<group_schedules, button_cooldowns, stats, messages, nextMsgId,
                   sweep, report, updates, passLog, dropped, fresh>>

\* lines 236-241: the answer to the send of the schedule message; its id is
\* stored as the chat's tracked message.
SetupSend(h, fault) ==
    /\ handler[h].pc = "setup_send"
    /\ LET c == handler[h].chat_id
           r == SendResult(c, fault)
       IN
       /\ last' = Step("setup", c, "none", r)
       /\ IF r = "ok" THEN
               /\ messages' = Posted(c, handler[h].new_text)
               /\ nextMsgId' = [nextMsgId EXCEPT ![c] = @ + 1]
               /\ group_schedules' = db_set_schedule_message(group_schedules, c, nextMsgId[c])
               /\ dropped' = [dropped EXCEPT ![c] = FALSE]
               /\ fresh' = [fresh EXCEPT ![c] = FALSE]
          ELSE
               /\ UNCHANGED <<messages, nextMsgId, group_schedules, dropped, fresh>>
    /\ handler' = [handler EXCEPT ![h] = IdleHandler]
    /\ UNCHANGED <<button_cooldowns, stats, now, sweep, report, updates, passLog>>

\* ---------------------------------------------------------- broadcast_command
\* lines 110-119, 321-327: admin gate, the text must not be empty, the list of
\* tracked chats is read once, then the 'sending to N groups' reply is awaited.
BroadcastStart(h, user_id, text, order) ==
    /\ handler[h].pc = "idle"
    /\ updates < MaxUpdates
    /\ updates' = updates + 1
    /\ order \in Orders(db_get_all_active_groups)
    /\ handler' = IF admin_only(user_id) /\ text # ""
                  THEN [handler EXCEPT ![h] =
                          [IdleHandler EXCEPT !.pc = "broadcast_reply", !.active_groups = order]]
                  ELSE handler
    /\ last' = NoStep
    /\ UNCHANGED <<group_schedules, button_cooldowns, stats, messages, nextMsgId, now,
                   sweep, report, passLog, dropped, fresh>>

\* lines 327-328, 336: the answer to the reply; the loop starts, or with an
\* empty list the final reply is sent.
BroadcastReply(h, fault) ==
    /\ handler[h].pc = "broadcast_reply"
    /\ last' = Step("broadcast_reply", 0, "none", IF fault = "none" THEN "ok" ELSE fault)
    /\ LET n == Len(handler[h].active_groups) IN
       IF fault # "none" THEN
            /\ handler' = [handler EXCEPT ![h] = IdleHandler]
            /\ UNCHANGED report
       ELSE IF n = 0 THEN
            /\ handler' = [handler EXCEPT ![h] = IdleHandler]
            /\ report' = [n |-> 0, ok |-> 0, failed |-> 0]
       ELSE
            /\ handler' = [handler EXCEPT ![h] = [@ EXCEPT !.pc = "broadcast_send", !.i = 1]]
            /\ UNCHANGED report
    /\ UNCHANGED <<group_schedules, button_cooldowns, stats, messages, nextMsgId, now,
                   sweep, updates, passLog, dropped, fresh>>

\* lines 328-336: the answer to the send to active_groups[i].  Forbidden and
\* BadRequest remove the chat's row and count a failure; any other exception
\* leaves the handler; after the last chat the counts are reported.
BroadcastSend(h, fault) ==
    /\ handler[h].pc = "broadcast_send"
    /\ LET hd == handler[h]
           c == hd.active_groups[hd.i]
           n == Len(hd.active_groups)
           ok == hd.successful_sends + (IF fault = "none" THEN 1 ELSE 0)
           failed == hd.failed_sends + (IF fault \in {"forbidden", "bad_request"} THEN 1 ELSE 0)
       IN
       /\ last' = Step("broadcast", c, "none", IF fault = "none" THEN "ok" ELSE fault)
       /\ group_schedules' = IF fault \in {"forbidden", "bad_request"}
                             THEN db_remove_schedule_message(group_schedules, c)
                             ELSE group_schedules
       /\ IF fault = "transient" THEN
               /\ handler' = [handler EXCEPT ![h] = IdleHandler]
               /\ UNCHANGED report
          ELSE IF hd.i = n THEN
               /\ handler' = [handler EXCEPT ![h] = IdleHandler]
               /\ report' = [n |-> n, ok |-> ok, failed |-> failed]
          ELSE
               /\ handler' = [handler EXCEPT ![h] =
                       [@ EXCEPT !.i = @ + 1, !.successful_sends = ok, !.failed_sends = failed]]
               /\ UNCHANGED report
    /\ UNCHANGED <<button_cooldowns, stats, messages, nextMsgId, now, sweep, updates,
                   passLog, dropped, fresh>>

\* ------------------------------------------------------ auto_update_schedules
SweepGo_SkipOnNoData(s, gs, from, t) ==
    LET ag == s.active_groups
        idxs == {j \in from..Len(ag) : gs[ag[j]] # 0 /\ s.new_data # "None"}
    IN
    IF idxs = {} THEN
        [s EXCEPT !.pc = "idle", !.i = 0, !.message_id = 0, !.new_text = NoText,
                  !.new_data = "None", !.finished = TRUE,
                  !.handled = @ \cup {ag[k] : k \in from..Len(ag)}]
    ELSE
        LET j == CHOOSE x \in idxs : \A y \in idxs : x <= y IN
        [s EXCEPT !.pc = "edit_message_text", !.i = j, !.message_id = gs[ag[j]],
                  !.new_text = format_schedule_message(s.new_data, t),
                  !.handled = @ \cup {ag[k] : k \in from..(j - 1)}]

SweepGo_NoReread(s, gs, from, t) ==
    LET ag == s.active_groups IN
    IF from > Len(ag) THEN
        [s EXCEPT !.pc = "idle", !.i = 0, !.message_id = 0, !.new_text = NoText,
                  !.new_data = "None", !.finished = TRUE]
    ELSE
        [s EXCEPT !.pc = "edit_message_text", !.i = from, !.message_id = gs[ag[from]],
                  !.new_text = format_schedule_message(s.new_data, t)]

\* lines 349-354: the loop runs on from position `from` to its next await:
\* chats without a tracked id are skipped, the first chat with one gets its
\* text rendered and its edit awaited; past the end the job returns.
SweepGo(s, gs, from, t) ==
    LET ag == s.active_groups
        idxs == {j \in from..Len(ag) : gs[ag[j]] # 0}
    IN
    IF idxs = {} THEN
        [s EXCEPT !.pc = "idle", !.i = 0, !.message_id = 0, !.new_text = NoText,
                  !.new_data = "None", !.finished = TRUE,
                  !.handled = @ \cup {ag[k] : k \in from..Len(ag)}]
    ELSE
        LET j == CHOOSE x \in idxs : \A y \in idxs : x <= y IN
        [s EXCEPT !.pc = "edit_message_text", !.i = j, !.message_id = gs[ag[j]],
                  !.new_text = format_schedule_message(s.new_data, t),
                  !.handled = @ \cup {ag[k] : k \in from..(j - 1)}]

\* An exception leaves the job in the middle of the loop.
SweepAbort(s) ==
    [s EXCEPT !.pc = "idle", !.i = 0, !.message_id = 0, !.new_text = NoText,
              !.new_data = "None", !.finished = FALSE]

SweepCounts_AlsoUnmodified(r) == r \in {"ok", "not_modified"}

\* lines 355-359: the counter is incremented after an edit that did not raise.
SweepCounts(r) == r = "ok"

\* lines 339-354: the job fires; the work list is read once, the feed once.
SweepStart(order, data, t) ==
    /\ sweep.pc = "idle"
    /\ t \in Minutes
    /\ order \in Orders(db_get_all_active_groups)
    /\ stats["auto_updates_processed"] + Len(order) <= MaxAutoUpdates
    /\ IF order = <<>> THEN UNCHANGED <<sweep, now>>
       ELSE
            /\ sweep' = SweepGo([IdleSweep EXCEPT !.active_groups = order, !.new_data = data,
                                                  !.ran = TRUE,
                                                  !.stat0 = stats["auto_updates_processed"]],
                                group_schedules, 1, t)
            /\ now' = AtMinute(t)
    /\ last' = NoStep
    /\ UNCHANGED <<group_schedules, button_cooldowns, stats, messages, nextMsgId,
                   handler, report, updates, passLog, dropped, fresh>>

\* lines 355-369: the answer to the edit of active_groups[i].
SweepEdit(fault, t) ==
    /\ sweep.pc = "edit_message_text"
    /\ t \in Minutes
    /\ LET c == sweep.active_groups[sweep.i]
           m == sweep.message_id
           text == sweep.new_text
           r == EditResult(c, m, text, fault)
           done == [sweep EXCEPT !.handled = @ \cup {c}]
       IN
       /\ last' = Step("sweep", c, r, "none")
       /\ dropped' = [dropped EXCEPT ![c] = @ \/ r = "forbidden"]
       /\ fresh' = [fresh EXCEPT ![c] = (r = "ok")]
       /\ messages' = IF r = "ok" THEN [messages EXCEPT ![c][m] = text] ELSE messages
       /\ stats' = IF SweepCounts(r) THEN db_increment_stat(stats, "auto_updates_processed") ELSE stats
       /\ group_schedules' = IF r = "forbidden" THEN db_remove_schedule_message(group_schedules, c)
                             ELSE group_schedules
       /\ sweep' = IF r = "ok" THEN SweepGo([done EXCEPT !.updated = @ + 1], group_schedules', sweep.i + 1, t)
                   ELSE IF r = "not_found" THEN [sweep EXCEPT !.pc = "send_message"]
                   ELSE IF r \in {"forbidden", "not_modified", "bad_request"}
                        THEN SweepGo(done, group_schedules', sweep.i + 1, t)
                   ELSE SweepAbort(done)
       /\ now' = IF sweep'.pc = "edit_message_text" THEN AtMinute(t) ELSE now
    /\ UNCHANGED <<button_cooldowns, nextMsgId, handler, report, updates, passLog>>

\* lines 366-367: the answer to the send_message of the 'not found' branch.
SweepRecreate(fault, t) ==
    /\ sweep.pc = "send_message"
    /\ t \in Minutes
    /\ LET c == sweep.active_groups[sweep.i]
           r == SendResult(c, fault)
           done == [sweep EXCEPT !.handled = @ \cup {c}]
       IN
       /\ last' = Step("sweep", c, "not_found", r)
       /\ fresh' = [fresh EXCEPT ![c] = FALSE]
       /\ IF r = "ok" THEN
               /\ messages' = Posted(c, sweep.new_text)
               /\ nextMsgId' = [nextMsgId EXCEPT ![c] = @ + 1]
               /\ group_schedules' = db_set_schedule_message(group_schedules, c, nextMsgId[c])
               /\ sweep' = SweepGo([done EXCEPT !.recreated = @ + 1], group_schedules', sweep.i + 1, t)
          ELSE
               /\ sweep' = SweepAbort(done)
               /\ UNCHANGED <<messages, nextMsgId, group_schedules>>
       /\ now' = IF sweep'.pc = "edit_message_text" THEN AtMinute(t) ELSE now
    /\ UNCHANGED <<button_cooldowns, stats, handler, report, updates, passLog, dropped>>

\* ----------------------------------------------------------- specifications
Next ==
    \/ \E c \in Chats, m \in MsgIds : DeleteMessage(c, m)
    \/ \E h \in HandlerIds, c \in Chats : ButtonClick(h, c)
    \/ \E h \in HandlerIds, status \in MemberStatus, t \in Instants, data \in Feed :
            ButtonGate(h, status, t, data)
    \/ \E h \in HandlerIds, fault \in Faults : ButtonEdit(h, fault)
    \/ \E h \in HandlerIds, fault \in Faults : ButtonRecreate(h, fault)
    \/ \E h \in HandlerIds, c \in Chats, u \in Users : SetupStart(h, c, u)
    \/ \E h \in HandlerIds, fault \in Faults, data \in Feed, t \in Minutes :
            SetupWelcome(h, fault, data, t)
    \/ \E h \in HandlerIds, fault \in Faults : SetupSend(h, fault)
    \/ \E h \in HandlerIds, u \in Users, text \in {"", "hello"}, order \in Orders(db_get_all_active_groups) :
            BroadcastStart(h, u, text, order)
    \/ \E h \in HandlerIds, fault \in Faults : BroadcastReply(h, fault)
    \/ \E h \in HandlerIds, fault \in Faults : BroadcastSend(h, fault)
    \/ \E order \in Orders(db_get_all_active_groups), data \in Feed, t \in Minutes :
            SweepStart(order, data, t)
    \/ \E fault \in Faults, t \in Minutes : SweepEdit(fault, t)
    \/ \E fault \in Faults, t \in Minutes : SweepRecreate(fault, t)

\* The whole program.
Spec == Init /\ [][Next]_vars

\* Manual refreshes alone: both handlers, both chats.
InitThrottle == InitTracked({1})

NextThrottle ==
    \/ \E h \in HandlerIds, c \in Chats : ButtonClick(h, c)
    \/ \E h \in HandlerIds, status \in MemberStatus, t \in Instants, data \in Feed :
            ButtonGate(h, status, t, data)
    \/ \E h \in HandlerIds, fault \in Faults : ButtonEdit(h, fault)
    \/ \E h \in HandlerIds, fault \in Faults : ButtonRecreate(h, fault)

SpecThrottle == InitThrottle /\ [][NextThrottle]_vars

\* The two refresh triggers on one chat, with deletions.
InitRefresh == \E T \in SUBSET {1} : InitTracked(T)

NextRefresh ==
    \/ \E m \in MsgIds : DeleteMessage(1, m)
    \/ ButtonClick(1, 1)
    \/ \E status \in MemberStatus, t \in Instants, data \in Feed : ButtonGate(1, status, t, data)
    \/ \E fault \in Faults : ButtonEdit(1, fault)
    \/ \E fault \in Faults : ButtonRecreate(1, fault)
    \/ \E order \in Orders(db_get_all_active_groups), data \in Feed, t \in Minutes :
            SweepStart(order, data, t)
    \/ \E fault \in Faults, t \in Minutes : SweepEdit(fault, t)
    \/ \E fault \in Faults, t \in Minutes : SweepRecreate(fault, t)

SpecRefresh == InitRefresh /\ [][NextRefresh]_vars

\* The job over both chats, with deletions.
NextSweep ==
    \/ \E c \in Chats, m \in MsgIds : DeleteMessage(c, m)
    \/ \E order \in Orders(db_get_all_active_groups), data \in Feed, t \in Minutes :
            SweepStart(order, data, t)
    \/ \E fault \in Faults, t \in Minutes : SweepEdit(fault, t)
    \/ \E fault \in Faults, t \in Minutes : SweepRecreate(fault, t)

SpecSweep == Init /\ [][NextSweep]_vars

\* /broadcast over both chats.
NextBroadcast ==
    \/ \E h \in HandlerIds, u \in Users, text \in {"", "hello"}, order \in Orders(db_get_all_active_groups) :
            BroadcastStart(h, u, text, order)
    \/ \E h \in HandlerIds, fault \in Faults : BroadcastReply(h, fault)
    \/ \E h \in HandlerIds, fault \in Faults : BroadcastSend(h, fault)

SpecBroadcast == Init /\ [][NextBroadcast]_vars

\* One chat under the sequential dispatcher: handler 1 takes the clicks and
\* the /setupgroup commands one at a time, the job runs beside it, messages
\* get deleted.
NextChat ==
    \/ \E m \in MsgIds : DeleteMessage(1, m)
    \/ ButtonClick(1, 1)
    \/ \E status \in MemberStatus, t \in Instants, data \in Feed : ButtonGate(1, status, t, data)
    \/ \E fault \in Faults : ButtonEdit(1, fault)
    \/ \E fault \in Faults : ButtonRecreate(1, fault)
    \/ \E u \in Users : SetupStart(1, 1, u)
    \/ \E fault \in Faults, data \in Feed, t \in Minutes : SetupWelcome(1, fault, data, t)
    \/ \E fault \in Faults : SetupSend(1, fault)
    \/ \E order \in Orders(db_get_all_active_groups), data \in Feed, t \in Minutes :
            SweepStart(order, data, t)
    \/ \E fault \in Faults, t \in Minutes : SweepEdit(fault, t)
    \/ \E fault \in Faults, t \in Minutes : SweepRecreate(fault, t)

SpecChat == InitRefresh /\ [][NextChat]_vars

\* Both chats tracked: the job over both, manual refreshes of chat 1.
InitFetch == InitTracked(Chats)

NextFetch ==
    \/ ButtonClick(1, 1)
    \/ \E status \in MemberStatus, t \in Instants, data \in Feed : ButtonGate(1, status, t, data)
    \/ \E fault \in Faults : ButtonEdit(1, fault)
    \/ \E fault \in Faults : ButtonRecreate(1, fault)
    \/ \E order \in Orders(db_get_all_active_groups), data \in Feed, t \in Minutes :
            SweepStart(order, data, t)
    \/ \E fault \in Faults, t \in Minutes : SweepEdit(fault, t)

SpecFetch == InitFetch /\ [][NextFetch]_vars

\* The job over both chats beside /broadcast, with deletions in chat 1.
NextDrop ==
    \/ \E m \in MsgIds : DeleteMessage(1, m)
    \/ \E u \in Users, text \in {"", "hello"}, order \in Orders(db_get_all_active_groups) :
            BroadcastStart(1, u, text, order)
    \/ \E fault \in Faults : BroadcastReply(1, fault)
    \/ \E fault \in Faults : BroadcastSend(1, fault)
    \/ \E order \in Orders(db_get_all_active_groups), data \in Feed, t \in Minutes :
            SweepStart(order, data, t)
    \/ \E fault \in Faults, t \in Minutes : SweepEdit(fault, t)
    \/ \E fault \in Faults, t \in Minutes : SweepRecreate(fault, t)

SpecDrop == Init /\ [][NextDrop]_vars

\* Every path that could touch a cooldown record: clicks and /setupgroup in
\* chat 1, /broadcast and the job, handler 1 taking the updates one at a
\* time.
NextCooldown ==
    \/ ButtonClick(1, 1)
    \/ \E status \in MemberStatus, t \in Instants, data \in Feed : ButtonGate(1, status, t, data)
    \/ \E fault \in Faults : ButtonEdit(1, fault)
    \/ \E fault \in Faults : ButtonRecreate(1, fault)
    \/ \E u \in Users : SetupStart(1, 1, u)
    \/ \E fault \in Faults, data \in Feed, t \in Minutes : SetupWelcome(1, fault, data, t)
    \/ \E fault \in Faults : SetupSend(1, fault)
    \/ \E u \in Users, text \in {"", "hello"}, order \in Orders(db_get_all_active_groups) :
            BroadcastStart(1, u, text, order)
    \/ \E fault \in Faults : BroadcastReply(1, fault)
    \/ \E fault \in Faults : BroadcastSend(1, fault)
    \/ \E order \in Orders(db_get_all_active_groups), data \in Feed, t \in Minutes :
            SweepStart(order, data, t)
    \/ \E fault \in Faults, t \in Minutes : SweepEdit(fault, t)

SpecCooldown == InitThrottle /\ [][NextCooldown]_vars

\* ------------------------------------------------------------------ claims
\* The step just taken belongs to handler h / to the job.
HandlerStep(h) == handler'[h] # handler[h]
SweepStep == sweep' # sweep
ButtonPcs == {"get_chat_member", "edit_message_text", "send_message"}
UpdatesClicked == stats["updates_clicked"]
AutoUpdates == stats["auto_updates_processed"]

\* After the step that answers a recreating send for chat c: a send that was
\* accepted posted exactly one new message and its id is the tracked id; a
\* send that failed left the chat's row as it was.
RecreateStored(c) ==
    IF last'.send = "ok"
    THEN /\ nextMsgId'[c] = nextMsgId[c] + 1
         /\ group_schedules'[c] = nextMsgId[c]
         /\ messages'[c][nextMsgId[c]] # NoMsg
         /\ \A m \in MsgIds \ {nextMsgId[c]} : messages'[c][m] = messages[c][m]
    ELSE /\ group_schedules'[c] = group_schedules[c]
         /\ messages' = messages

\* C1: when the edit of the tracked message answers 'message to edit not
\* found', either trigger goes on to send a new message; when that send is
\* accepted, exactly one new message exists and its id is stored as the
\* chat's tracked message, so the chat is still tracked; the row is never
\* removed on this path.
C1_SelfHealing ==
    [][ /\ \A h \in HandlerIds :
             (HandlerStep(h) /\ handler[h].pc = "edit_message_text" /\ last'.edit = "not_found")
                => (handler'[h].pc = "send_message" /\ group_schedules' = group_schedules)
        /\ \A h \in HandlerIds :
             (HandlerStep(h) /\ handler[h].pc = "send_message" /\ handler[h].edit_result = "not_found")
                => RecreateStored(handler[h].chat_id)
        /\ (SweepStep /\ sweep.pc = "edit_message_text" /\ last'.edit = "not_found")
                => (sweep'.pc = "send_message" /\ group_schedules' = group_schedules)
        /\ (SweepStep /\ sweep.pc = "send_message")
                => RecreateStored(sweep.active_groups[sweep.i])
      ]_vars

\* C1 witness: the manual refresh has just recreated the message of chat 1
\* after 'not found', while the job, whose edit also answered 'not found',
\* is about to recreate.
C1_Witness ==
    /\ last = Step("button", 1, "not_found", "ok")
    /\ group_schedules[1] = nextMsgId[1] - 1
    /\ messages[1][group_schedules[1]] # NoMsg
    /\ sweep.pc = "send_message"

\* C2: once a refresh (manual or job) has seen Forbidden for a chat, the chat
\* has no row in group_schedules, until setup_group is run for it again.
C2_TerminalOnForbidden ==
    \A c \in Chats : dropped[c] => group_schedules[c] = 0

\* C3: when the edit answers 'message is not modified', the refresh (manual
\* or job) leaves the tracked id as it was, sends no message, keeps the row
\* and increments no counter.
C3_NoOpEditHarmless ==
    [][ \A c \in Chats :
            (last'.by \in {"button", "sweep"} /\ last'.chat = c /\ last'.edit = "not_modified")
                => /\ group_schedules'[c] = group_schedules[c]
                   /\ messages' = messages
                   /\ nextMsgId' = nextMsgId
                   /\ stats' = stats
                   /\ \A h \in HandlerIds : HandlerStep(h) => handler'[h].pc # "send_message"
      ]_vars

\* The step answers, from the message itself, the edit of a refresh of chat c
\* whose rendered text is the text the message already has.
SameTextEdit(c) ==
    /\ last'.chat = c
    /\ last'.send = "none"
    /\ last'.edit \notin Faults
    /\ \/ \E h \in HandlerIds :
            /\ HandlerStep(h) /\ handler[h].pc = "edit_message_text"
            /\ handler[h].new_text = messages[c][handler[h].message_id_to_edit]
       \/ /\ SweepStep /\ sweep.pc = "edit_message_text"
          /\ sweep.new_text = messages[c][sweep.message_id]

\* The step is the gate of a manual refresh of chat c that renders the text
\* the tracked message already has.
SameTextGate(c) ==
    /\ last'.by = "gate_passed" /\ last'.chat = c
    /\ \E h \in HandlerIds :
            /\ HandlerStep(h) /\ handler'[h].pc = "edit_message_text"
            /\ handler'[h].new_text = messages[c][handler'[h].message_id_to_edit]

\* C4: right after a refresh of a chat ended Updated, a second refresh with
\* the same text ends Unchanged (the edit answers 'not modified' and nothing
\* more is done), and the second refresh increments neither counter.
C4_Idempotence ==
    [][ \A c \in Chats :
          /\ (fresh[c] /\ SameTextEdit(c))
                => /\ last'.edit = "not_modified"
                   /\ \A h \in HandlerIds : HandlerStep(h) => handler'[h].pc = "idle"
                   /\ sweep'.pc # "send_message"
                   /\ stats' = stats
                   /\ group_schedules' = group_schedules
          /\ (fresh[c] /\ SameTextGate(c)) => stats' = stats
      ]_vars

\* The chats of the job's work list.
WorkList == {sweep.active_groups[k] : k \in DOMAIN sweep.active_groups}

\* C5: when a run of the job has ended, every chat of its work list has been
\* processed, whatever the transport answered for the chats before it.
C5_SweepIsolation ==
    (sweep.ran /\ sweep.pc = "idle") => sweep.handled = WorkList

\* C6: per chat, any two clicks that passed the cooldown gate are at least
\* BUTTON_COOLDOWN_SECONDS apart; the stored timestamp of a chat is the time
\* of its own last pass (0 when it has none), so clicks in other chats never
\* move it; a click is rejected only when less than the cooldown has elapsed
\* since the stored timestamp, and a click that passes records its time.
C6_ThrottleCorrect ==
    /\ \A c \in Chats : \A i, j \in DOMAIN passLog[c] :
            i < j => passLog[c][j] - passLog[c][i] >= BUTTON_COOLDOWN_SECONDS
    /\ \A c \in Chats :
            button_cooldowns[c] = IF passLog[c] = <<>> THEN 0 ELSE passLog[c][Len(passLog[c])]
    /\ last.by = "gate_rejected" => now - button_cooldowns[last.chat] < BUTTON_COOLDOWN_SECONDS
    /\ last.by = "gate_passed" => button_cooldowns[last.chat] = now

\* C6 witness: chat 1 has had two passes; the second click is suspended at
\* its edit while another admin's click on the same chat has just been
\* rejected.
C6_Witness ==
    /\ Len(passLog[1]) = 2
    /\ last = Step("gate_rejected", 1, "none", "none")
    /\ \E h \in HandlerIds : handler[h].pc = "edit_message_text" /\ handler[h].chat_id = 1

\* The manual refresh of handler h returns in this step.
ButtonReturns(h) ==
    HandlerStep(h) /\ handler[h].pc \in ButtonPcs /\ handler'[h].pc = "idle"

\* The increments of updates_clicked made by the manual refresh of handler h,
\* the step being taken included: the one of line 261 when the handler is past
\* the gate, else what this step adds.
IncrementsOf(h) ==
    IF handler[h].pc = "get_chat_member" THEN UpdatesClicked' - UpdatesClicked ELSE 1

RECURSIVE SumLen(_, _)
SumLen(f, S) ==
    IF S = {} THEN 0
    ELSE LET c == CHOOSE x \in S : TRUE IN Len(f[c]) + SumLen(f, S \ {c})

C8_CountsUpdatedAndRecreated ==
    (sweep.ran /\ sweep.pc = "idle") => AutoUpdates - sweep.stat0 = sweep.updated + sweep.recreated

\* C8 amended: during and after a run of the job the counter has grown by
\* the number of chats whose edit succeeded; recreated, unchanged, failed and
\* dropped chats add nothing.
C8_CountsUpdatedOnly ==
    sweep.ran => AutoUpdates - sweep.stat0 = sweep.updated

\* C8 witness: a run over both chats has ended with one chat updated and one
\* recreated.
C8_Witness ==
    /\ sweep.pc = "idle" /\ sweep.finished
    /\ Len(sweep.active_groups) = 2
    /\ sweep.updated = 1 /\ sweep.recreated = 1

\* C9: when the edit fails with a network error or with a BadRequest other
\* than 'not found' / 'not modified', the refresh (manual or job) leaves the
\* tracked id as it was and sends no replacement message.
C9_TransientLeavesTracking ==
    [][ \A c \in Chats :
            (last'.by \in {"button", "sweep"} /\ last'.chat = c
                /\ last'.edit \in {"transient", "bad_request"})
                => /\ group_schedules'[c] = group_schedules[c]
                   /\ messages' = messages
                   /\ nextMsgId' = nextMsgId
                   /\ \A h \in HandlerIds : HandlerStep(h) => handler'[h].pc # "send_message"
      ]_vars

\* C10: /broadcast goes on to the next chat of its list whatever the send to
\* the current one answered; Forbidden removes the chat's row and counts a
\* failure; any other answer keeps the row; the final counts add up to the
\* length of the list.
C10_Broadcast ==
    [][ \A h \in HandlerIds :
            (HandlerStep(h) /\ handler[h].pc = "broadcast_send") =>
                LET c == handler[h].active_groups[handler[h].i]
                    n == Len(handler[h].active_groups)
                IN
                /\ last'.send = "forbidden" => group_schedules'[c] = 0
                /\ last'.send # "forbidden" => group_schedules'[c] = group_schedules[c]
                /\ handler[h].i < n =>
                        /\ handler'[h].pc = "broadcast_send"
                        /\ handler'[h].i = handler[h].i + 1
                        /\ handler'[h].successful_sends + handler'[h].failed_sends = handler[h].i
                /\ handler[h].i = n =>
                        /\ report'.n = n
                        /\ report'.ok + report'.failed = n
      ]_vars

\* C11: a click that is rejected, because the clicking user is neither
\* administrator nor creator of the chat or because less than
\* BUTTON_COOLDOWN_SECONDS have passed since the chat's stored timestamp,
\* changes no table (cooldown, counters, tracked id), edits and sends no
\* schedule message, and ends the handler.
C11_RejectedNonMutating ==
    [][ \A h \in HandlerIds :
            ( /\ HandlerStep(h) /\ handler[h].pc = "get_chat_member"
              /\ \/ last'.by = "gate_not_admin"
                 \/ /\ last'.by \notin {"gate_failed", "gate_not_admin"}
                    /\ now' - button_cooldowns[handler[h].chat_id] < BUTTON_COOLDOWN_SECONDS )
                => /\ button_cooldowns' = button_cooldowns
                   /\ stats' = stats
                   /\ group_schedules' = group_schedules
                   /\ messages' = messages
                   /\ nextMsgId' = nextMsgId
                   /\ handler'[h].pc = "idle"
      ]_vars

\* C11 witness: chat 1 had one pass at the start; a later click on it has
\* just been rejected by the cooldown and every handler is back idle.
C11_Witness ==
    /\ last = Step("gate_rejected", 1, "none", "none")
    /\ button_cooldowns[1] = StartTime /\ now > StartTime
    /\ UpdatesClicked = 1
    /\ \A h \in HandlerIds : handler[h].pc = "idle"

\* The chats of the work list that the step of the job passes over without
\* awaiting anything for them.
SweepSkipped ==
    LET ag == sweep'.active_groups IN
    IF ~SweepStep THEN {}
    ELSE IF sweep'.pc = "edit_message_text" THEN {ag[k] : k \in (sweep.i + 1)..(sweep'.i - 1)}
    ELSE IF sweep'.pc = "idle" /\ sweep'.finished THEN {ag[k] : k \in (sweep.i + 1)..Len(ag)}
    ELSE {}

\* C12: a refresh that finds no tracked id for the chat does nothing more: a
\* click that passed the gate in an untracked chat ends the handler with no
\* table changed (cooldown, counters, tracking) and no message edited or
\* sent; the job passes over an untracked chat of its list the same way.
C12_UntrackedLeftAlone ==
    [][ /\ \A h \in HandlerIds :
            ( /\ HandlerStep(h) /\ handler[h].pc = "get_chat_member"
              /\ last'.by = "gate_passed"
              /\ group_schedules[handler[h].chat_id] = 0 )
                => /\ handler'[h].pc = "idle"
                   /\ group_schedules' = group_schedules
                   /\ messages' = messages
                   /\ nextMsgId' = nextMsgId
                   /\ button_cooldowns' = button_cooldowns
                   /\ stats' = stats
        /\ \A c \in SweepSkipped :
                /\ group_schedules[c] = 0 /\ group_schedules'[c] = 0
                /\ messages'[c] = messages[c]
                /\ nextMsgId'[c] = nextMsgId[c]
                /\ button_cooldowns' = button_cooldowns
      ]_vars

\* C14: a failed fetch (new_data is None) stalls nothing.  A run of the job
\* over a non-empty list begins by awaiting the edit of its first chat; the
\* text it renders from None is the 'no slots' text; when the job moves on,
\* every chat it passes over is untracked, so no tracked chat of the list is
\* skipped; and a click that passed the gate in a tracked chat goes on to
\* await the edit of the tracked message, whatever the fetch returned.
C14_FetchFailureNoStall ==
    [][ /\ (SweepStep /\ sweep.pc = "idle")
                => (sweep'.pc = "edit_message_text" /\ sweep'.i = 1)
        /\ (SweepStep /\ sweep'.pc = "edit_message_text" /\ sweep'.new_data = "None")
                => sweep'.new_text = format_schedule_message("None", sweep'.new_text[2])
        /\ \A c \in SweepSkipped : group_schedules'[c] = 0
        /\ \A h \in HandlerIds :
            ( /\ HandlerStep(h) /\ handler[h].pc = "get_chat_member"
              /\ last'.by = "gate_passed"
              /\ group_schedules[handler[h].chat_id] # 0 )
                => /\ handler'[h].pc = "edit_message_text"
                   /\ handler'[h].message_id_to_edit = group_schedules[handler[h].chat_id]
                   /\ handler'[h].new_text[1] \in {"no_slots", "slots"}
      ]_vars

\* C14 witness: the fetch of the job failed and the job has reached the
\* second chat of its list with the 'no slots' text, while a manual refresh
\* whose fetch failed too awaits its edit.
C14_Witness ==
    /\ sweep.pc = "edit_message_text" /\ sweep.i = 2
    /\ sweep.new_data = "None" /\ sweep.new_text[1] = "no_slots"
    /\ handler[1].pc = "edit_message_text" /\ handler[1].new_text[1] = "no_slots"

\* C15: in a tracked chat, every schedule message that exists is the tracked
\* message: no second live message, no orphan, whatever the interleaving of
\* the job, manual refreshes and /setupgroup on the chat.
C15_SingleLiveMessage ==
    \A c \in Chats : group_schedules[c] # 0 =>
        \A m \in MsgIds : messages[c][m] # NoMsg => m = group_schedules[c]

\* C16: no chat's stored cooldown timestamp ever decreases; a chat's
\* timestamp changes only in the step in which a click in that chat passes
\* the gate of the manual refresh; every other step (the job, /broadcast,
\* /setupgroup, the rest of the manual refresh) leaves every cooldown record
\* as it was.
C16_CooldownManualOnly ==
    [][ /\ \A c \in Chats : button_cooldowns'[c] >= button_cooldowns[c]
        /\ \A c \in Chats : button_cooldowns'[c] # button_cooldowns[c]
                => (last'.by = "gate_passed" /\ last'.chat = c)
        /\ (\A h \in HandlerIds : ~(HandlerStep(h) /\ handler[h].pc = "get_chat_member"))
                => button_cooldowns' = button_cooldowns
      ]_vars

\* C16 witness: while chat 1 is inside its cooldown, the job has just edited
\* the chat's message and /setupgroup is under way in it; the other chat has
\* no record.
C16_Witness ==
    /\ button_cooldowns[1] # 0 /\ now - button_cooldowns[1] < BUTTON_COOLDOWN_SECONDS
    /\ button_cooldowns[2] = 0
    /\ last = Step("sweep", 1, "ok", "none")
    /\ handler[1].pc = "setup_send"

\* C17: the job re-reads the tracked id when it reaches a chat of its list.
\* Whenever it awaits an edit, the chat has a row at that moment and the id
\* it edits is the one just read; a chat of the list whose row is gone when
\* the job reaches it is passed over: nothing is edited or sent in it and the
\* job does not give it a row again.
C17_NoDanglingWorkItems ==
    [][ /\ (SweepStep /\ sweep'.pc = "edit_message_text")
                => LET c == sweep'.active_groups[sweep'.i] IN
                   /\ group_schedules'[c] # 0
                   /\ sweep'.message_id = group_schedules'[c]
        /\ \A c \in SweepSkipped :
                /\ group_schedules'[c] = 0
                /\ messages'[c] = messages[c]
                /\ nextMsgId'[c] = nextMsgId[c]
      ]_vars

\* C17 witness: the list was <<1, 2>>; while the job awaited the edit of
\* chat 1, /broadcast removed the row of chat 2; the edit of chat 1 has just
\* succeeded and the run has ended without touching chat 2.
C17_Witness ==
    /\ last = Step("sweep", 1, "ok", "none")
    /\ sweep.pc = "idle" /\ sweep.finished
    /\ sweep.active_groups = <<1, 2>>
    /\ sweep.updated = 1 /\ sweep.recreated = 0
    /\ group_schedules[2] = 0 /\ ~dropped[2]
    /\ messages[2][1] = format_schedule_message("courts", StartTime \div SecondsPerMinute)

\* A send of a schedule message to chat c is answered in this step.
SendAnswered(c) ==
    last'.chat = c /\ last'.by \in {"setup", "button", "sweep"} /\ last'.send # "none"

\* C18: the tracked id of a chat is always an id the transport has handed
\* out for a schedule message sent to that chat; the row gets a new id only
\* in the step in which a send of setup_group or of a recreation to that chat
\* is accepted, and the id is that of the message just posted; an edit that
\* succeeds leaves the id as it was, and so does a send that fails.
C18_TrackedIdsFromSends ==
    /\ [](\A c \in Chats : group_schedules[c] \in 0..(nextMsgId[c] - 1))
    /\ [][ \A c \in Chats :
            /\ (group_schedules'[c] # group_schedules[c] /\ group_schedules'[c] # 0)
                    => /\ SendAnswered(c) /\ last'.send = "ok"
                       /\ group_schedules'[c] = nextMsgId[c]
                       /\ nextMsgId'[c] = nextMsgId[c] + 1
                       /\ messages[c][nextMsgId[c]] = NoMsg
                       /\ messages'[c][nextMsgId[c]] # NoMsg
            /\ (last'.chat = c /\ last'.edit = "ok")
                    => group_schedules'[c] = group_schedules[c]
            /\ (SendAnswered(c) /\ last'.send # "ok")
                    => group_schedules'[c] = group_schedules[c]
         ]_vars

\* C18 witness: /setupgroup was run again in chat 1 and its message 2 became
\* the tracked one; message 2 was deleted, a manual refresh found it missing
\* and its replacement send has just failed: the row still holds 2.
C18_Witness ==
    /\ last.by = "button" /\ last.chat = 1
    /\ last.edit = "not_found" /\ last.send \in {"forbidden", "bad_request", "transient"}
    /\ group_schedules[1] = 2 /\ nextMsgId[1] = 3
    /\ messages[1][2] = NoMsg
====
